---- MODULE Spec2Model ----
(***************************************************************************)
(* Retargeting operators of the gret add-on:                               *)
(*   mesh/retarget_mesh.py    GRET_OT_retarget_mesh     (cap-derived stride)*)
(*   rig/retarget_armature.py GRET_OT_retarget_armature                    *)
(*   mesh/retarget.py         GRET_OT_retarget_mesh     (fixed stride)     *)
(* Each execute() is modelled statement group by statement group; pc is    *)
(* the position inside execute.  Points are one-dimensional (the X axis),  *)
(* with exact rational coordinates <<numerator, denominator>>, so that     *)
(* the interpolation system is solved exactly.  The rbf module the         *)
(* operators import is modelled from its specification.                    *)
(***************************************************************************)
EXTENDS Integers, Sequences, FiniteSets, TLC

\* ------------------------------------------------------------------ bounds
\* Largest number of vertices of the source mesh.
MaxVerts == 3

\* ------------------------------------------------------- rational numbers
Abs(i) == IF i < 0 THEN -i ELSE i

RECURSIVE GCD(_, _)
GCD(a, b) == IF b = 0 THEN a ELSE GCD(b, a % b)

Rat(n, d) ==
    LET s == IF d < 0 THEN -1 ELSE 1
        g == GCD(Abs(n), Abs(d))
    IN  <<(s * n) \div g, (s * d) \div g>>

Q(i) == <<i, 1>>
QZero == <<0, 1>>
QOne == <<1, 1>>
QNeg(a) == <<-a[1], a[2]>>
QAdd(a, b) ==
    LET g == GCD(a[2], b[2])
    IN  Rat(a[1] * (b[2] \div g) + b[1] * (a[2] \div g), (a[2] \div g) * b[2])
QSub(a, b) == QAdd(a, QNeg(b))
QMul(a, b) ==
    LET x == Rat(a[1], b[2])
        y == Rat(b[1], a[2])
    IN  <<x[1] * y[1], x[2] * y[2]>>
QDiv(a, b) == QMul(a, Rat(b[2], b[1]))
QAbs(a) == <<Abs(a[1]), a[2]>>
QLess(a, b) == a[1] * b[2] < b[1] * a[2]
QSign(a) == IF a[1] > 0 THEN QOne ELSE IF a[1] < 0 THEN <<-1, 1>> ELSE QZero

\* The function f on 1..n as a tuple, every element evaluated once.
RECURSIVE Tuple(_, _)
Tuple(f, n) == IF n = 0 THEN <<>> ELSE Append(Tuple(f, n - 1), f[n])

\* Python's None, and a value that is not None.
None == [isNone |-> TRUE]
Some(v) == [isNone |-> FALSE, v |-> v]

\* math.ceil(a / b) for integers a >= 0, b >= 1
ceil(a, b) == (a + b - 1) \div b

\* ------------------------------------------------------------- transforms
\* A 4x4 object matrix restricted to the X axis: x |-> s * x + t, s # 0.
Matrix == [s |-> QOne, t |-> QZero]
MatMul(A, B) == [s |-> QMul(A.s, B.s), t |-> QAdd(QMul(A.s, B.t), A.t)]
inverted(A) == [s |-> QDiv(QOne, A.s), t |-> QNeg(QDiv(A.t, A.s))]
Transform(A, p) == QAdd(QMul(A.s, p), A.t)

\* -------------------------------------------------------------- rbf module
\* Kernels: a distance and a radius to a weight.  Of the six kernels the
\* operators offer, the two with rational values are modelled.
linear(d, radius) == d

beckert_wendland_c2_basis(d, radius) ==
    LET arg == QDiv(d, radius)
        t == QSub(QOne, arg)
        t2 == QMul(t, t)
    IN  IF QLess(QZero, t)
        THEN QMul(QMul(t2, t2), QAdd(QMul(Q(4), arg), QOne))
        ELSE QZero

\* Canonical radius multiplier of the compact-support kernel.
C2Scale == 2

\* rbf_kernels of the cap-derived operators: function name -> (kernel, scale);
\* .get(function, (linear, 1.0))
rbf_kernels(function) ==
    IF function = "C2"
    THEN [kernel |-> "beckert_wendland_c2_basis", scale |-> Q(C2Scale)]
    ELSE [kernel |-> "linear", scale |-> QOne]

\* rbf_kernels of the fixed-stride operator: function name -> kernel;
\* .get(function, rbf.linear)
rbf_kernels_fixed(function) ==
    IF function = "C2" THEN "beckert_wendland_c2_basis" ELSE "linear"

CallKernel(rbf, d, radius) ==
    IF rbf = "beckert_wendland_c2_basis"
    THEN beckert_wendland_c2_basis(d, radius)
    ELSE linear(d, radius)

\* K[i][j] = k(|v1[i] - v2[j]|, radius)
get_distance_matrix(v1, v2, rbf, radius) ==
    Tuple([i \in 1..Len(v1) |->
            Tuple([j \in 1..Len(v2) |-> CallKernel(rbf, QAbs(QSub(v1[i], v2[j])), radius)],
                  Len(v2))],
          Len(v1))

\* Gauss-Jordan elimination of the n x (n+1) augmented matrix A from column
\* c on; <<>> when the matrix is singular.
RECURSIVE GaussJordan(_, _, _)
GaussJordan(A, n, c) ==
    IF c > n THEN A
    ELSE LET cand == {r \in c..n : A[r][c] # QZero}
         IN  IF cand = {} THEN <<>>
             ELSE LET p == CHOOSE r \in cand : \A q \in cand : r <= q
                      piv == A[p][c]
                      prow == Tuple([j \in 1..(n + 1) |-> QDiv(A[p][j], piv)], n + 1)
                      B == Tuple([r \in 1..n |->
                              IF r = c THEN prow
                              ELSE LET row == IF r = p THEN A[c] ELSE A[r]
                                       f == row[c]
                                   IN  IF f = QZero THEN row
                                       ELSE Tuple([j \in 1..(n + 1) |->
                                                     QSub(row[j], QMul(f, prow[j]))], n + 1)],
                            n)
                  IN  GaussJordan(B, n, c + 1)

\* The augmented system [K P; P^T 0] [w; c] = [dst; 0], K the kernel matrix
\* of the source points and P = [1, src].  Some(weights), N kernel weights
\* followed by the constant and the linear coefficient, or None when the
\* system is singular (the mesh operators see None as LinAlgError).
get_weight_matrix(src_pts, dst_pts, rbf, radius) ==
    LET N == Len(src_pts)
        n == N + 2
        dist == get_distance_matrix(src_pts, src_pts, rbf, radius)
        H == Tuple([i \in 1..n |-> Tuple([j \in 1..(n + 1) |->
                IF i <= N
                THEN IF j <= N THEN dist[i][j]
                     ELSE IF j = N + 1 THEN QOne
                     ELSE IF j = N + 2 THEN src_pts[i]
                     ELSE dst_pts[i]
                ELSE IF j > N THEN QZero
                     ELSE IF i = N + 1 THEN QOne ELSE src_pts[j]], n + 1)], n)
        R == GaussJordan(H, n, 1)
    IN  IF R = <<>> THEN None ELSE Some(Tuple([i \in 1..n |-> R[i][n + 1]], n))

\* points[mask]: the elements of seq whose mask entry is set, in order
RECURSIVE Masked(_, _)
Masked(seq, mask) ==
    IF seq = <<>> THEN <<>>
    ELSE (IF Head(mask) THEN <<Head(seq)>> ELSE <<>>) \o Masked(Tail(seq), Tail(mask))

\* len(points[::stride]) for n points
SampledCount(n, stride) == ceil(n, stride)

\* points[::stride]
Strided(seq, stride) ==
    Tuple([i \in 1..SampledCount(Len(seq), stride) |-> seq[(i - 1) * stride + 1]],
          SampledCount(Len(seq), stride))

\* Positions 1..n of the vertices of a mesh
Indices(n) == Tuple([i \in 1..n |-> i], n)

\* The vertex indices that mask and stride keep
SampledIndices(n, mask, stride) ==
    Strided(IF mask.isNone THEN Indices(n) ELSE Masked(Indices(n), mask.v), stride)

\* get_mesh_points(obj, shape_key, mask, stride, matrix, x_mirror): the
\* coordinates of the mesh (of the named shape key when given), masked,
\* strided and transformed.  With x_mirror a list, a reflected point (X
\* negated) is appended for every sampled point listed in it; an empty list
\* is first filled with the positions of all sampled points.
get_mesh_points(obj, shape_key, mask, stride, matrix, x_mirror) ==
    LET keys == {k \in 1..Len(obj.shape_keys) :
                    ~shape_key.isNone /\ obj.shape_keys[k].name = shape_key.v}
        co == IF keys = {} THEN obj.co
              ELSE obj.shape_keys[CHOOSE k \in keys : TRUE].co
        idx == SampledIndices(Len(co), mask, stride)
        pts == Tuple([i \in 1..Len(idx) |->
                        IF matrix.isNone THEN co[idx[i]] ELSE Transform(matrix.v, co[idx[i]])],
                     Len(idx))
        mir == IF x_mirror.isNone THEN <<>>
               ELSE IF x_mirror.v = <<>> THEN Indices(Len(idx))
               ELSE x_mirror.v
    IN  [pts |-> pts \o Tuple([i \in 1..Len(mir) |-> QNeg(pts[mir[i]])], Len(mir)),
         x_mirror |-> IF x_mirror.isNone THEN None ELSE Some(mir)]

\* get_armature_points(obj, matrix): head and tail of every edit bone, in
\* bone order, transformed.  Edit bones exist only in edit mode.
get_armature_points(obj, matrix) ==
    IF obj.mode # "EDIT" THEN <<>>
    ELSE Tuple([i \in 1..(2 * Len(obj.bones)) |->
                  LET b == obj.bones[(i + 1) \div 2]
                  IN  Transform(matrix, IF i % 2 = 1 THEN b.head ELSE b.tail)],
               2 * Len(obj.bones))

\* set_armature_points(obj, points, matrix, only_selected, lock_length,
\* lock_direction): the object with its bones moved to the points.
set_armature_points(obj, points, matrix, only_selected, lock_length, lock_direction) ==
    [obj EXCEPT !.bones = Tuple(
        [i \in 1..Len(obj.bones) |->
            LET b == obj.bones[i]
                head == Transform(matrix, points[2 * i - 1])
                tail == Transform(matrix, points[2 * i])
                length == QAbs(QSub(b.tail, b.head))
                direction == QSign(QSub(b.tail, b.head))
                new_direction == QSign(QSub(tail, head))
            IN  IF only_selected /\ ~b.select THEN b
                ELSE IF lock_direction
                THEN [b EXCEPT !.head = head,
                               !.tail = QAdd(head, QMul(direction, length))]
                ELSE IF lock_length
                THEN [b EXCEPT !.head = head,
                               !.tail = QAdd(head, QMul(new_direction, length))]
                ELSE [b EXCEPT !.head = head, !.tail = tail]], Len(obj.bones))]

\* ------------------------------------------------------------------- state
VARIABLES
    objects,          \* bpy.data.objects: name -> object
    context_mode,     \* context.mode
    selected_objects, \* context.selected_objects, in iteration order
    active_object,    \* context.object
    op,               \* the operator being executed
    props,            \* the operator's properties (self.*)
    pc,               \* position inside execute
    num_vertices, vertex_cap, mask, num_masked, stride,
    rbf_kernel, radius, x_mirror, src_pts, dst_pts, weights,
    todo,             \* position of the loop over the selected objects
    is_editing,
    result,           \* the set execute returned, {} while running
    reports,          \* self.report messages, oldest first
    objects0,         \* the objects when execute began
    solves,           \* number of calls of get_weight_matrix so far
    solved,           \* the kernel and radius get_weight_matrix was called with
    evals,            \* one record per evaluated target, oldest first
    items,            \* the module-level list of retarget_dst_items
    calls,            \* the invocations of retarget_dst_items: call -> position
    settings,         \* context.scene.gret: retarget_src and retarget_dst
    chosen,           \* the last pick of retarget_dst: the source then set, the item
    panel,            \* what draw_panel gave the operator button, None when disabled
    run,              \* 1 in the first execution, 2 in a repeated one
    first_run         \* inputs and outputs of the first execution, once repeated

sceneVars == <<objects, context_mode>>
inputVars == <<selected_objects, active_object>>
strideVars == <<num_vertices, vertex_cap, mask, num_masked, stride>>
fitVars == <<rbf_kernel, radius, x_mirror, src_pts, dst_pts, weights, solves, solved>>
loopVars == <<todo, is_editing, evals>>
itemVars == <<items, calls>>
panelVars == <<settings, chosen, panel>>
runVars == <<run, first_run>>
vars == <<objects, context_mode, selected_objects, active_object, op, props, pc,
          num_vertices, vertex_cap, mask, num_masked, stride,
          rbf_kernel, radius, x_mirror, src_pts, dst_pts, weights,
          todo, is_editing, result, reports, objects0, solves, solved, evals, items,
          calls, settings, chosen, panel, run, first_run>>

\* ------------------------------------------------------------------- scene
Operators == {"retarget_mesh", "retarget_armature", "retarget_mesh_fixed"}

\* Source layouts and the deformation that produced the destination:
\*   affine  vertices 1, 2, 3, ...     destination 1 - 2x (mirrored, scaled)
\*   bend    vertices 1, 2, 3, ...     destination x * x
\*   dup     vertices 1, 1, 2, ...     destination 1 - 2x (two coincide)
\*   same    vertices 1, 2, 3, ...     destination x (not deformed)
Shapes == {"affine", "bend", "dup", "same"}

SourceCo(shape, n) ==
    Tuple([i \in 1..n |-> IF shape = "dup" /\ i > 1 THEN Q(i - 1) ELSE Q(i)], n)

Deform(shape, x) ==
    IF shape = "bend" THEN QMul(x, x)
    ELSE IF shape = "same" THEN x
    ELSE QSub(QOne, QMul(Q(2), x))

Deformed(shape, co) == Tuple([i \in 1..Len(co) |-> Deform(shape, co[i])], Len(co))

Key(name, co) == [name |-> name, co |-> co, value |-> QZero]
Bone(head, tail, select) == [head |-> Q(head), tail |-> Q(tail), select |-> select]

Object(type, mode, matrix_world, co, select, shape_keys, bones) ==
    [type |-> type, mode |-> mode, matrix_world |-> matrix_world, co |-> co,
     select |-> select, shape_keys |-> shape_keys, bones |-> bones]

Mesh(matrix_world, co, select, shape_keys) ==
    Object("MESH", "OBJECT", matrix_world, co, select, shape_keys, <<>>)

Armature(mode, matrix_world, bones) ==
    Object("ARMATURE", mode, matrix_world, <<>>, <<>>, <<>>, bones)

Names == {"Src", "Dst", "Body", "Cloth", "Hull", "Rig", "Rig2", "Prop", "Lamp", "NE"}

\* The scene: source and destination as drawn, and a fixed set of targets.
\*   keyed   the source mesh carries shape keys Basis and Morph
\*   extra   the destination has one vertex more than the source
\* NE is a mesh of the source's layout whose name is two letters long.
Scene(shape, n, select, keyed, extra, armature_mode) ==
    LET co == SourceCo(shape, n)
        dco == SourceCo(shape, IF extra THEN n + 1 ELSE n)
    IN  [name \in Names |->
          CASE name = "Src" ->
                 Mesh(Matrix, co, select,
                      IF keyed THEN <<Key("Basis", co), Key("Morph", Deformed(shape, co))>>
                      ELSE <<>>)
            [] name = "Dst" ->
                 Mesh([s |-> QOne, t |-> QOne], Deformed(shape, dco),
                      [i \in 1..Len(dco) |-> FALSE], <<>>)
            [] name = "Body" ->
                 Mesh([s |-> Q(2), t |-> QOne], <<Q(0), Q(2)>>, <<FALSE, FALSE>>, <<>>)
            [] name = "Cloth" ->
                 Mesh(Matrix, <<Q(1), Q(3)>>, <<FALSE, FALSE>>,
                      <<Key("Basis", <<Q(1), Q(3)>>), Key("Smile", <<Q(1), Q(4)>>)>>)
            [] name = "Hull" -> Mesh(Matrix, <<>>, <<>>, <<>>)
            [] name = "Rig" ->
                 Armature(armature_mode, [s |-> QOne, t |-> Q(-1)],
                          <<Bone(0, 1, TRUE), Bone(1, 3, FALSE)>>)
            [] name = "Rig2" ->
                 Armature(armature_mode, Matrix, <<Bone(2, 1, TRUE)>>)
            [] name = "Prop" -> Armature(armature_mode, Matrix, <<>>)
            [] name = "NE" -> Mesh(Matrix, co, [i \in 1..Len(co) |-> FALSE], <<>>)
            [] OTHER -> Object("LIGHT", "OBJECT", Matrix, <<>>, <<>>, <<>>, <<>>)]

\* Property defaults of the three operators (bpy.props declarations).
DefaultProps ==
    [source |-> "Src", destination |-> "o_Dst",
     function |-> "BIHARMONIC", radius |-> Rat(1, 2), only_selection |-> FALSE,
     high_quality |-> FALSE, as_shape_key |-> FALSE, invert |-> FALSE,
     use_object_transform |-> FALSE, use_mirror_x |-> FALSE,
     lock_length |-> FALSE, lock_direction |-> FALSE, stride |-> 1]

\* The select flags drawn with only_selection: every mask when the flag is
\* set, one alternating pattern when it is not.
SelectChoices(n) ==
    {[only_selection |-> TRUE, select |-> m] : m \in [1..n -> BOOLEAN]}
    \cup {[only_selection |-> FALSE, select |-> [i \in 1..n |-> i % 2 = 1]]}

\* Source/destination pairs: the destination is an object of the same
\* layout, an object with one vertex more, or a shape key of the source.
\* The destination that is not deformed is drawn for the unmasked source of
\* MaxVerts vertices.
DestinationChoices ==
    {[shape |-> sh, keyed |-> FALSE, extra |-> FALSE] : sh \in Shapes}
    \cup {[shape |-> "bend", keyed |-> TRUE, extra |-> FALSE],
          [shape |-> "affine", keyed |-> FALSE, extra |-> TRUE]}

\* The invocations of retarget_dst_items and the scene each one sees: two
\* scenes without an object in common.
Calls == {1, 2}
SceneObjects(c) == IF c = 1 THEN <<"Src", "Dst">> ELSE <<"Body", "Cloth">>
Call(pos, src_obj, k) == [pc |-> pos, src |-> src_obj, k |-> k]

\* Nothing of execute has run: its locals are unset, nothing is returned
\* or reported, and the objects are the ones execute begins with.
InitLocals ==
    /\ selected_objects = <<>>
    /\ active_object = None
    /\ pc = "execute"
    /\ num_vertices = 0 /\ vertex_cap = 0 /\ mask = None /\ num_masked = 0 /\ stride = 0
    /\ rbf_kernel = "linear" /\ radius = QZero /\ x_mirror = None
    /\ src_pts = <<>> /\ dst_pts = <<>> /\ weights = None
    /\ todo = 1 /\ is_editing = FALSE
    /\ result = {} /\ reports = <<>>
    /\ objects0 = objects
    /\ solves = 0 /\ solved = None /\ evals = <<>>

\* The state in which an operator is about to execute.
InitExecute ==
    /\ op \in Operators
    /\ \E n \in 0..MaxVerts : \E sel \in SelectChoices(n), d \in DestinationChoices,
                                 edit \in BOOLEAN :
          /\ edit => op = "retarget_armature"
          /\ sel.only_selection => op # "retarget_mesh_fixed"
          /\ d.shape = "same" => n = MaxVerts /\ ~sel.only_selection
          /\ objects = Scene(d.shape, n, sel.select, d.keyed, d.extra,
                             IF edit THEN "EDIT" ELSE "OBJECT")
          /\ context_mode = IF edit THEN "EDIT_ARMATURE" ELSE "OBJECT"
          /\ props = [DefaultProps EXCEPT
                        !.only_selection = sel.only_selection,
                        !.destination = IF d.keyed THEN "s_Morph" ELSE "o_Dst"]
    /\ InitLocals

Init ==
    /\ InitExecute
    /\ items = <<>>
    /\ calls = [c \in Calls |-> Call("idle", None, 1)]
    /\ settings = [retarget_src |-> None, retarget_dst |-> "NONE"]
    /\ chosen = None /\ panel = None
    /\ run = 1 /\ first_run = None

\* ------------------------------------------------- inputs of an invocation
\* Largest stride property drawn for the fixed-stride operator.
MaxStride == 2

\* prefs.mesh__retarget_num_vertices_low / _high, the vertex caps of the
\* armature operator (user preferences).
mesh__retarget_num_vertices_low == 1
mesh__retarget_num_vertices_high == 2

\* Vertex caps of the mesh operator.
VertexCapLow == 1000
VertexCapHigh == 5000

\* Vertex limit of the fixed-stride operator.
FixedVertexLimit == 5000

Functions == {"LINEAR", "C2"}
Radii == {Rat(1, 2)}

Selection(objs, active) == [objs |-> objs, active |-> Some(active)]

\* The inputs that only the loop over the selected objects reads (the
\* selection and the write-back properties) are drawn in full for the
\* unmasked source of MaxVerts vertices, and are one selection with the
\* properties at their defaults for every other source.
Wide == num_vertices = MaxVerts /\ ~props.only_selection
Flag == IF Wide THEN BOOLEAN ELSE {FALSE}

\* context.selected_objects and context.object as execute finds them.
Selections ==
    IF op = "retarget_armature"
    THEN IF context_mode = "OBJECT"
         THEN {Selection(<<"Rig", "Rig2">>, "Rig2")} \cup
              (IF Wide
               THEN {Selection(<<"Rig2", "Rig">>, "Rig"), Selection(<<"Prop", "Rig">>, "Rig"),
                     Selection(<<"Body", "Rig", "Lamp">>, "Rig"),
                     Selection(<<"Src", "Rig">>, "Src")}
               ELSE {})
         ELSE {Selection(<<"Rig", "Rig2">>, "Rig2")} \cup
              (IF Wide
               THEN {Selection(<<"Rig2", "Rig">>, "Rig"), Selection(<<"Rig", "Prop">>, "Prop"),
                     Selection(<<"Rig2">>, "Rig2")}
               ELSE {})
    ELSE {Selection(<<"Body", "Cloth">>, "Cloth")} \cup
         (IF Wide
          THEN {Selection(<<"Cloth", "Body">>, "Body"), Selection(<<"Src", "Hull", "Body">>, "Body"),
                Selection(<<"Lamp", "Dst", "Rig">>, "Rig")}
          ELSE {})

\* ------------------------------------------------- shared parts of execute
src_obj == props.source
\* str.startswith(prefix) and the slice str[2:]
startswith(str, prefix) ==
    Len(str) >= Len(prefix) /\ SubSeq(str, 1, Len(prefix)) = prefix
From2(str) == SubSeq(str, 3, Len(str))

\* bpy.data.objects.get(name)
ObjectsGet(name) == IF name \in Names THEN Some(name) ELSE None

\* retarget_mesh.py 77-80, retarget_armature.py 93-96, retarget.py 77-80
dst_is_shape_key == startswith(props.destination, "s_")
dst_obj == IF dst_is_shape_key THEN src_obj ELSE From2(props.destination)
dst_shape_key_name == IF dst_is_shape_key THEN Some(From2(props.destination)) ELSE None

\* Cancel returning FINISHED after the report.
Cancel_Finished(message) ==
    /\ reports' = Append(reports, message)
    /\ result' = {"FINISHED"}
    /\ pc' = "done"

\* Cancel without the report.
Cancel_Unreported(message) ==
    /\ result' = {"CANCELLED"}
    /\ pc' = "done"
    /\ UNCHANGED reports

\* self.report({'ERROR'}, message); return {'CANCELLED'}
Cancel(message) ==
    /\ reports' = Append(reports, message)
    /\ result' = {"CANCELLED"}
    /\ pc' = "done"

\* Evaluate with h = [dist, pts, 1].
Evaluate_Swapped(pts, centres, rbf, r, w) ==
    LET dist == get_distance_matrix(pts, centres, rbf, r)
        h == Tuple([i \in 1..Len(pts) |-> dist[i] \o <<pts[i], QOne>>], Len(pts))
        dot(row, k) == LET RECURSIVE sum(_)
                           sum(j) == IF j = 0 THEN QZero
                                     ELSE QAdd(sum(j - 1), QMul(row[j], w[j]))
                       IN  sum(k)
    IN  Tuple([i \in 1..Len(pts) |-> dot(h[i], Len(w))], Len(pts))

\* Evaluate with h = dist, without the constant and linear columns.
Evaluate_KernelOnly(pts, centres, rbf, r, w) ==
    LET dist == get_distance_matrix(pts, centres, rbf, r)
        dot(row, k) == LET RECURSIVE sum(_)
                           sum(j) == IF j = 0 THEN QZero
                                     ELSE QAdd(sum(j - 1), QMul(row[j], w[j]))
                       IN  sum(k)
    IN  Tuple([i \in 1..Len(pts) |-> dot(dist[i], Len(centres))], Len(pts))

\* h = [dist, 1, pts]; new_pts = h . weights
Evaluate(pts, centres, rbf, r, w) ==
    LET dist == get_distance_matrix(pts, centres, rbf, r)
        h == Tuple([i \in 1..Len(pts) |-> dist[i] \o <<QOne, pts[i]>>], Len(pts))
        dot(row, k) == LET RECURSIVE sum(_)
                           sum(j) == IF j = 0 THEN QZero
                                     ELSE QAdd(sum(j - 1), QMul(row[j], w[j]))
                       IN  sum(k)
    IN  Tuple([i \in 1..Len(pts) |-> dot(h[i], Len(w))], Len(pts))

\* The kernel function and the radius handed to an rbf call.
KernelArgs(rbf, r) == [rbf |-> rbf, radius |-> r]

\* EvaluationKernel with the radius property itself, without the scale.
EvaluationKernel_Unscaled == KernelArgs(rbf_kernel, props.radius)

\* get_distance_matrix(pts, src_pts, rbf_kernel, self.radius * scale) in the
\* loop (retarget_mesh.py 124, retarget_armature.py 156); the fixed-stride
\* operator has no scale (retarget.py 110).
EvaluationKernel == KernelArgs(rbf_kernel, radius)

\* Retargeted with the kernel centred on the sampled destination points.
Retargeted_Destination(pts) == Evaluate(pts, dst_pts, rbf_kernel, radius, weights.v)

\* The query points of each target are evaluated against the sampled source
\* points and the weights of this invocation
\* (retarget_mesh.py 124-127, retarget_armature.py 156-159, retarget.py 110-113).
Retargeted(pts) ==
    Evaluate(pts, src_pts, EvaluationKernel.rbf, EvaluationKernel.radius, weights.v)

\* What one evaluation read and produced.
Evaluation(name, pts, new_pts) ==
    [obj |-> name, pts |-> pts, new_pts |-> new_pts, kernel |-> EvaluationKernel]

\* sum(mask)
RECURSIVE CountTrue(_)
CountTrue(m) == IF m = <<>> THEN 0 ELSE (IF Head(m) THEN 1 ELSE 0) + CountTrue(Tail(m))

\* mask = [v.select for v in src_obj.data.vertices] if self.only_selection else None
MaskOf(o) == IF props.only_selection THEN Some(o.select) ELSE None

\* NumMasked as sum(mask) or num_vertices: an empty selection counts as all.
NumMasked_OrAll(m, n) ==
    IF ~m.isNone /\ CountTrue(m.v) # 0 THEN CountTrue(m.v) ELSE n

\* NumMasked added to the count a previous execution left.
NumMasked_Accumulated(m, n) ==
    num_masked + (IF ~m.isNone /\ m.v # <<>> THEN CountTrue(m.v) ELSE n)

\* num_masked = sum(mask) if mask else num_vertices
NumMasked(m, n) == IF ~m.isNone /\ m.v # <<>> THEN CountTrue(m.v) ELSE n

\* StrideFor with floor division, at least 1.
StrideFor_Floor(n, cap) == IF n \div cap = 0 THEN 1 ELSE n \div cap

\* stride = ceil(num_masked / vertex_cap)
StrideFor(n, cap) == ceil(n, cap)

\* SampleDestination without the list of mirrored vertices.
SampleDestination_NoMirror(xm) ==
    get_mesh_points(objects[dst_obj], dst_shape_key_name, mask, stride, None, None)

\* SampleDestination without the mask.
SampleDestination_Unmasked(xm) ==
    get_mesh_points(objects[dst_obj], dst_shape_key_name, None, stride, None, xm)

\* The sampled points of the source mesh, and of the destination mesh or
\* shape key, under the same mask and stride.
SampleSource(xm) == get_mesh_points(objects[src_obj], None, mask, stride, None, xm)
SampleDestination(xm) ==
    get_mesh_points(objects[dst_obj], dst_shape_key_name, mask, stride, None, xm)

\* The loop over the selected objects begins: the selection is drawn here.
EnterLoop ==
    /\ \E sel \in Selections :
          /\ selected_objects' = sel.objs
          /\ active_object' = sel.active
    /\ pc' = "loop"

\* ------------------------------------------ GRET_OT_retarget_mesh.execute
\* retarget_mesh.py 76-89
MeshCheck ==
    /\ op = "retarget_mesh" /\ pc = "execute"
    /\ num_vertices' = Len(objects[src_obj].co)
    /\ IF num_vertices' = 0
       THEN Cancel("Source mesh has no vertices.")
       ELSE IF num_vertices' # Len(objects[dst_obj].co)
       THEN Cancel("Source and destination meshes must have equal number of vertices.")
       ELSE pc' = "stride" /\ UNCHANGED <<result, reports>>
    /\ UNCHANGED <<sceneVars, inputVars, op, props, vertex_cap, mask, num_masked, stride,
                   fitVars, loopVars, objects0,
                   itemVars, panelVars, runVars>>

\* retarget_mesh.py 94-101
MeshStride ==
    /\ op = "retarget_mesh" /\ pc = "stride"
    /\ \E high_quality \in BOOLEAN : props' = [props EXCEPT !.high_quality = high_quality]
    /\ vertex_cap' = IF props'.high_quality THEN VertexCapHigh ELSE VertexCapLow
    /\ mask' = MaskOf(objects[src_obj])
    /\ num_masked' = NumMasked(mask', num_vertices)
    /\ stride' = StrideFor(num_masked', vertex_cap')
    /\ IF num_masked' = 0
       THEN Cancel("Source mesh has no vertices selected.")
       ELSE pc' = "sample" /\ UNCHANGED <<result, reports>>
    /\ UNCHANGED <<sceneVars, inputVars, op, num_vertices, fitVars, loopVars, objects0,
                   itemVars, panelVars, runVars>>

\* retarget_mesh.py 103-105
MeshSample ==
    /\ op = "retarget_mesh" /\ pc = "sample"
    /\ \E function \in Functions, r \in Radii :
          props' = [props EXCEPT !.function = function, !.radius = r]
    /\ rbf_kernel' = rbf_kernels(props'.function).kernel
    /\ radius' = QMul(props'.radius, rbf_kernels(props'.function).scale)
    /\ src_pts' = SampleSource(None).pts
    /\ dst_pts' = SampleDestination(None).pts
    /\ pc' = "solve"
    /\ UNCHANGED <<sceneVars, inputVars, op, strideVars, x_mirror, weights, solves, solved,
                   loopVars, result, reports, objects0,
                   itemVars, panelVars, runVars>>

\* retarget_mesh.py 106-111
MeshSolve ==
    /\ op = "retarget_mesh" /\ pc = "solve"
    /\ weights' = get_weight_matrix(src_pts, dst_pts, rbf_kernel, radius)
    /\ solved' = Some(KernelArgs(rbf_kernel, radius))
    /\ solves' = solves + 1
    /\ IF weights'.isNone
       THEN /\ Cancel("Failed to retarget. Try a different function or radius.")
            /\ UNCHANGED <<inputVars, props>>
       ELSE /\ EnterLoop
            /\ \E as_shape_key \in Flag : props' = [props EXCEPT !.as_shape_key = as_shape_key]
            /\ UNCHANGED <<result, reports>>
    /\ UNCHANGED <<sceneVars, op, strideVars, rbf_kernel, radius, x_mirror, src_pts,
                   dst_pts, loopVars, objects0,
                   itemVars, panelVars, runVars>>

\* ToLocal dropping the last row instead of the last column.
ToLocal_DropRow(dst_to_obj, new_mesh_pts) ==
    LET n == IF new_mesh_pts = <<>> THEN 0 ELSE Len(new_mesh_pts) - 1
    IN  Tuple([i \in 1..n |-> Transform(dst_to_obj, new_mesh_pts[i])], n)

\* ToLocal that leaves the points in the destination's frame.
ToLocal_Untransformed(dst_to_obj, new_mesh_pts) == new_mesh_pts

\* Result back to local space: a column of ones is appended, the points are
\* multiplied by dst_to_obj and the last column is dropped
\* (retarget_mesh.py 129-132, retarget.py 114-117).
ToLocal(dst_to_obj, new_mesh_pts) ==
    Tuple([i \in 1..Len(new_mesh_pts) |-> Transform(dst_to_obj, new_mesh_pts[i])],
          Len(new_mesh_pts))

\* shape_key_name = f"Retarget_{dst_obj.name}", with the destination shape
\* key's name appended when there is one (retarget_mesh.py 138-140); the
\* fixed-stride operator never appends it (retarget.py 123).
ShapeKeyName ==
    IF op = "retarget_mesh" /\ dst_is_shape_key
    THEN "Retarget_" \o dst_obj \o "_" \o dst_shape_key_name.v
    ELSE "Retarget_" \o dst_obj

\* shape_key_add(name=...): a name that is taken gets the first free
\* numbered suffix.
UniqueName(keys, name) ==
    LET taken == {keys[k].name : k \in 1..Len(keys)}
        suffixed == <<name, name \o ".001", name \o ".002", name \o ".003",
                      name \o ".004">>
        free == {i \in 1..Len(suffixed) : suffixed[i] \notin taken}
    IN  suffixed[CHOOSE i \in free : \A j \in free : i <= j]

\* WriteMesh that adds a Basis key with every result key.
WriteMesh_BasisEachTime(o, new_mesh_pts, shape_key_name) ==
    [o EXCEPT !.shape_keys =
        o.shape_keys \o <<Key(UniqueName(o.shape_keys, "Basis"), o.co),
                          [name |-> shape_key_name, co |-> new_mesh_pts, value |-> QOne]>>]

\* WriteMesh that sets the vertex coordinates on every path.
WriteMesh_Both(o, new_mesh_pts, shape_key_name) ==
    IF props.as_shape_key
    THEN LET keys == IF o.shape_keys = <<>> THEN <<Key("Basis", o.co)>> ELSE o.shape_keys
         IN  [o EXCEPT !.co = new_mesh_pts,
                       !.shape_keys =
                 Append(keys, [name |-> shape_key_name, co |-> new_mesh_pts, value |-> QOne])]
    ELSE [o EXCEPT !.co = new_mesh_pts]

\* The three ways the mesh operators write the result back
\* (retarget_mesh.py 134-156, retarget.py 119-138).
WriteMesh(o, new_mesh_pts, shape_key_name) ==
    IF props.as_shape_key
    THEN LET keys == IF o.shape_keys = <<>> THEN <<Key("Basis", o.co)>> ELSE o.shape_keys
         IN  [o EXCEPT !.shape_keys =
                 Append(keys, [name |-> UniqueName(keys, shape_key_name),
                               co |-> new_mesh_pts, value |-> QOne])]
    ELSE IF o.shape_keys # <<>>
    THEN [o EXCEPT !.co = new_mesh_pts, !.shape_keys[1].co = new_mesh_pts]
    ELSE [o EXCEPT !.co = new_mesh_pts]

\* retarget_mesh.py 113-156, one iteration
MeshIteration ==
    /\ op = "retarget_mesh" /\ pc = "loop" /\ todo <= Len(selected_objects)
    /\ LET obj == selected_objects[todo]
           o == objects[obj]
           dst_to_obj == MatMul(inverted(o.matrix_world), objects[dst_obj].matrix_world)
           obj_to_dst == inverted(dst_to_obj)
           mesh_pts == get_mesh_points(o, None, None, 1, Some(obj_to_dst), None).pts
           new_mesh_pts == Retargeted(mesh_pts)
           local_pts == ToLocal(dst_to_obj, new_mesh_pts)
       IN  IF o.type # "MESH" \/ obj = src_obj \/ obj = dst_obj \/ Len(mesh_pts) = 0
           THEN UNCHANGED <<objects, evals>>
           ELSE /\ objects' = [objects EXCEPT ![obj] = WriteMesh(o, local_pts, ShapeKeyName)]
                /\ evals' = Append(evals, Evaluation(obj, mesh_pts, new_mesh_pts))
    /\ todo' = todo + 1
    /\ UNCHANGED <<context_mode, inputVars, op, props, pc, strideVars, fitVars, is_editing,
                   result, reports, objects0,
                   itemVars, panelVars, runVars>>

\* retarget_mesh.py 158
MeshFinish ==
    /\ op = "retarget_mesh" /\ pc = "loop" /\ todo > Len(selected_objects)
    /\ result' = {"FINISHED"}
    /\ pc' = "done"
    /\ UNCHANGED <<sceneVars, inputVars, op, props, strideVars, fitVars, loopVars,
                   reports, objects0,
                   itemVars, panelVars, runVars>>

\* ------------------------------------ GRET_OT_retarget_armature.execute
\* bpy.ops.object.editmode_toggle() can run: there is an active object of a
\* type that has an edit mode.
CanToggle ==
    /\ ~active_object.isNone
    /\ objects[active_object.v].type \in {"MESH", "ARMATURE"}

\* bpy.ops.object.editmode_toggle(): from object mode, the active object and
\* every selected object of its type enter edit mode; from edit mode, every
\* object in edit mode leaves it.
ToggledObjects ==
    LET type == objects[active_object.v].type
        sel == {selected_objects[i] : i \in 1..Len(selected_objects)} \cup {active_object.v}
    IN  [name \in Names |->
          IF context_mode = "OBJECT"
          THEN IF name \in sel /\ objects[name].type = type
               THEN [objects[name] EXCEPT !.mode = "EDIT"] ELSE objects[name]
          ELSE [objects[name] EXCEPT !.mode = "OBJECT"]]

ToggledMode ==
    IF context_mode = "OBJECT"
    THEN "EDIT_" \o objects[active_object.v].type
    ELSE "OBJECT"

\* SetBones with lock_length never set.
SetBones_NoLength(o, new_pts, dst_to_obj) ==
    set_armature_points(o, new_pts, dst_to_obj, is_editing,
                        FALSE, props.lock_direction)

\* SetBones with only_selected never set.
SetBones_All(o, new_pts, dst_to_obj) ==
    set_armature_points(o, new_pts, dst_to_obj, FALSE,
                        props.lock_length, props.lock_direction)

\* SetBones with lock_direction passed as lock_length and never set itself.
SetBones_NoDirection(o, new_pts, dst_to_obj) ==
    set_armature_points(o, new_pts, dst_to_obj, is_editing,
                        props.lock_length \/ props.lock_direction, FALSE)

\* set_armature_points(obj, new_pts, matrix=dst_to_obj, only_selected=is_editing,
\*     lock_length=self.lock_length, lock_direction=self.lock_direction)
SetBones(o, new_pts, dst_to_obj) ==
    set_armature_points(o, new_pts, dst_to_obj, is_editing,
                        props.lock_length, props.lock_direction)

\* retarget_armature.py 93-105
ArmatureCheck ==
    /\ op = "retarget_armature" /\ pc = "execute"
    /\ num_vertices' = Len(objects[src_obj].co)
    /\ IF num_vertices' = 0
       THEN Cancel("Source mesh has no vertices.")
       ELSE IF num_vertices' # Len(objects[dst_obj].co)
       THEN Cancel("Source and destination meshes must have equal number of vertices.")
       ELSE pc' = "stride" /\ UNCHANGED <<result, reports>>
    /\ UNCHANGED <<sceneVars, inputVars, op, props, vertex_cap, mask, num_masked, stride,
                   fitVars, loopVars, objects0,
                   itemVars, panelVars, runVars>>

\* retarget_armature.py 110-120
ArmatureStride ==
    /\ op = "retarget_armature" /\ pc = "stride"
    /\ \E high_quality \in BOOLEAN : props' = [props EXCEPT !.high_quality = high_quality]
    /\ vertex_cap' = IF props'.high_quality THEN mesh__retarget_num_vertices_high
                     ELSE mesh__retarget_num_vertices_low
    /\ mask' = MaskOf(objects[src_obj])
    /\ num_masked' = NumMasked(mask', num_vertices)
    /\ stride' = StrideFor(num_masked', vertex_cap')
    /\ IF num_masked' = 0
       THEN Cancel("Source mesh has no vertices selected.")
       ELSE pc' = "sample" /\ UNCHANGED <<result, reports>>
    /\ UNCHANGED <<sceneVars, inputVars, op, num_vertices, fitVars, loopVars, objects0,
                   itemVars, panelVars, runVars>>

\* Inverted that never swaps.
Inverted_Never(invert, src, dst) == <<src, dst>>

\* if self.invert: src_pts, dst_pts = dst_pts, src_pts
Inverted(invert, src, dst) == IF invert THEN <<dst, src>> ELSE <<src, dst>>

\* retarget_armature.py 122-131
ArmatureSample ==
    /\ op = "retarget_armature" /\ pc = "sample"
    /\ \E function \in Functions, r \in Radii, use_mirror_x \in BOOLEAN, invert \in BOOLEAN :
          props' = [props EXCEPT !.function = function, !.radius = r,
                                 !.use_mirror_x = use_mirror_x, !.invert = invert]
    /\ rbf_kernel' = rbf_kernels(props'.function).kernel
    /\ radius' = QMul(props'.radius, rbf_kernels(props'.function).scale)
    /\ LET first == IF props'.use_mirror_x THEN Some(<<>>) ELSE None
           src == SampleSource(first)
           second == IF src.x_mirror.isNone \/ src.x_mirror.v = <<>> THEN None
                     ELSE src.x_mirror
           dst == SampleDestination(second)
       IN  /\ x_mirror' = second
           /\ src_pts' = Inverted(props'.invert, src.pts, dst.pts)[1]
           /\ dst_pts' = Inverted(props'.invert, src.pts, dst.pts)[2]
    /\ pc' = "solve"
    /\ UNCHANGED <<sceneVars, inputVars, op, strideVars, weights, solves, solved,
                   loopVars, result, reports, objects0,
                   itemVars, panelVars, runVars>>

\* retarget_armature.py 132-135
ArmatureSolve ==
    /\ op = "retarget_armature" /\ pc = "solve"
    /\ weights' = get_weight_matrix(src_pts, dst_pts, rbf_kernel, radius)
    /\ solved' = Some(KernelArgs(rbf_kernel, radius))
    /\ solves' = solves + 1
    /\ IF weights'.isNone
       THEN /\ Cancel("Failed to retarget. Try a different function or radius.")
            /\ UNCHANGED <<inputVars, props>>
       ELSE /\ EnterLoop
            /\ \E use_object_transform \in Flag, lock_length \in Flag,
                  lock_direction \in Flag :
                  props' = [props EXCEPT !.use_object_transform = use_object_transform,
                                         !.lock_length = lock_length,
                                         !.lock_direction = lock_direction]
            /\ UNCHANGED <<result, reports>>
    /\ UNCHANGED <<sceneVars, op, strideVars, rbf_kernel, radius, x_mirror, src_pts,
                   dst_pts, loopVars, objects0,
                   itemVars, panelVars, runVars>>

\* retarget_armature.py 137-143: the next selected object; an armature that
\* is not being edited enters edit mode.
ArmatureEnter ==
    /\ op = "retarget_armature" /\ pc = "loop" /\ todo <= Len(selected_objects)
    /\ LET obj == selected_objects[todo]
       IN  IF objects[obj].type # "ARMATURE"
           THEN /\ todo' = todo + 1
                /\ UNCHANGED <<sceneVars, is_editing, pc, result>>
           ELSE /\ is_editing' = (objects[obj].mode = "EDIT")
                /\ IF is_editing'
                   THEN pc' = "bones" /\ UNCHANGED <<sceneVars, result>>
                   ELSE IF CanToggle
                   THEN /\ objects' = ToggledObjects
                        /\ context_mode' = ToggledMode
                        /\ pc' = "bones"
                        /\ UNCHANGED result
                   ELSE /\ result' = {"RuntimeError"}
                        /\ pc' = "done"
                        /\ UNCHANGED sceneVars
                /\ UNCHANGED todo
    /\ UNCHANGED <<inputVars, op, props, strideVars, fitVars, evals, reports, objects0,
                   itemVars, panelVars, runVars>>

\* retarget_armature.py 145-165: the bones of the current armature are read,
\* mapped and written back, and edit mode is left if it was entered.
ArmatureApply ==
    /\ op = "retarget_armature" /\ pc = "bones"
    /\ LET obj == selected_objects[todo]
           o == objects[obj]
           dst_to_obj == IF props.use_object_transform
                         THEN MatMul(inverted(o.matrix_world), objects[dst_obj].matrix_world)
                         ELSE Matrix
           obj_to_dst == inverted(dst_to_obj)
           pts == get_armature_points(o, obj_to_dst)
           new_pts == Retargeted(pts)
           written == [objects EXCEPT ![obj] = SetBones(o, new_pts, dst_to_obj)]
       IN  IF Len(pts) = 0
           THEN /\ pc' = "loop"
                /\ UNCHANGED <<sceneVars, evals, result>>
           ELSE /\ evals' = Append(evals, Evaluation(obj, pts, new_pts))
                /\ IF is_editing
                   THEN /\ objects' = written
                        /\ pc' = "loop"
                        /\ UNCHANGED <<context_mode, result>>
                   ELSE IF CanToggle
                   THEN /\ objects' = [name \in Names |->
                                          [written[name] EXCEPT !.mode = ToggledObjects[name].mode]]
                        /\ context_mode' = ToggledMode
                        /\ pc' = "loop"
                        /\ UNCHANGED result
                   ELSE /\ objects' = written
                        /\ result' = {"RuntimeError"}
                        /\ pc' = "done"
                        /\ UNCHANGED context_mode
    /\ todo' = todo + 1
    /\ UNCHANGED <<inputVars, op, props, strideVars, fitVars, is_editing, reports, objects0,
                   itemVars, panelVars, runVars>>

\* retarget_armature.py 167
ArmatureFinish ==
    /\ op = "retarget_armature" /\ pc = "loop" /\ todo > Len(selected_objects)
    /\ result' = {"FINISHED"}
    /\ pc' = "done"
    /\ UNCHANGED <<sceneVars, inputVars, op, props, strideVars, fitVars, loopVars,
                   reports, objects0,
                   itemVars, panelVars, runVars>>

\* --------------------------- GRET_OT_retarget_mesh.execute, fixed stride
\* retarget.py 76-90; the stride is the property, and there is no mask
FixedCheck ==
    /\ op = "retarget_mesh_fixed" /\ pc = "execute"
    /\ \E st \in 1..MaxStride : props' = [props EXCEPT !.stride = st]
    /\ num_vertices' = Len(objects[src_obj].co)
    /\ stride' = props'.stride
    /\ IF Len(objects[src_obj].co) # Len(objects[dst_obj].co)
       THEN Cancel("Source and destination meshes must have equal amount of vertices.")
       ELSE IF (Len(objects[src_obj].co) \div props'.stride) > FixedVertexLimit
       THEN Cancel("With too many vertices, retargeting may take a long time or crash.")
       ELSE pc' = "sample" /\ UNCHANGED <<result, reports>>
    /\ UNCHANGED <<sceneVars, inputVars, op, vertex_cap, mask, num_masked,
                   fitVars, loopVars, objects0,
                   itemVars, panelVars, runVars>>

\* retarget.py 92-94
FixedSample ==
    /\ op = "retarget_mesh_fixed" /\ pc = "sample"
    /\ \E function \in Functions, r \in Radii :
          props' = [props EXCEPT !.function = function, !.radius = r]
    /\ rbf_kernel' = rbf_kernels_fixed(props'.function)
    /\ radius' = props'.radius
    /\ src_pts' = SampleSource(None).pts
    /\ dst_pts' = SampleDestination(None).pts
    /\ pc' = "solve"
    /\ UNCHANGED <<sceneVars, inputVars, op, strideVars, x_mirror, weights, solves, solved,
                   loopVars, result, reports, objects0,
                   itemVars, panelVars, runVars>>

\* retarget.py 95-100
FixedSolve ==
    /\ op = "retarget_mesh_fixed" /\ pc = "solve"
    /\ weights' = get_weight_matrix(src_pts, dst_pts, rbf_kernel, radius)
    /\ solved' = Some(KernelArgs(rbf_kernel, radius))
    /\ solves' = solves + 1
    /\ IF weights'.isNone
       THEN /\ Cancel("Failed to retarget. Try a different function or change the radius.")
            /\ UNCHANGED <<inputVars, props>>
       ELSE /\ EnterLoop
            /\ \E as_shape_key \in Flag : props' = [props EXCEPT !.as_shape_key = as_shape_key]
            /\ UNCHANGED <<result, reports>>
    /\ UNCHANGED <<sceneVars, op, strideVars, rbf_kernel, radius, x_mirror, src_pts,
                   dst_pts, loopVars, objects0,
                   itemVars, panelVars, runVars>>

\* retarget.py 102-138, one iteration
FixedIteration ==
    /\ op = "retarget_mesh_fixed" /\ pc = "loop" /\ todo <= Len(selected_objects)
    /\ LET obj == selected_objects[todo]
           o == objects[obj]
           dst_to_obj == MatMul(inverted(o.matrix_world), objects[dst_obj].matrix_world)
           obj_to_dst == inverted(dst_to_obj)
           mesh_pts == get_mesh_points(o, None, None, 1, Some(obj_to_dst), None).pts
           new_mesh_pts == Retargeted(mesh_pts)
           local_pts == ToLocal(dst_to_obj, new_mesh_pts)
       IN  IF o.type # "MESH" \/ obj = src_obj \/ obj = dst_obj
           THEN UNCHANGED <<objects, evals>>
           ELSE /\ objects' = [objects EXCEPT
                                 ![obj] = WriteMesh(o, local_pts, ShapeKeyName)]
                /\ evals' = Append(evals, Evaluation(obj, mesh_pts, new_mesh_pts))
    /\ todo' = todo + 1
    /\ UNCHANGED <<context_mode, inputVars, op, props, pc, strideVars, fitVars, is_editing,
                   result, reports, objects0,
                   itemVars, panelVars, runVars>>

\* retarget.py 140
FixedFinish ==
    /\ op = "retarget_mesh_fixed" /\ pc = "loop" /\ todo > Len(selected_objects)
    /\ result' = {"FINISHED"}
    /\ pc' = "done"
    /\ UNCHANGED <<sceneVars, inputVars, op, props, strideVars, fitVars, loopVars,
                   reports, objects0,
                   itemVars, panelVars, runVars>>

\* ------------------------------------------------------ retarget_dst_items
\* The items callback of the retarget_dst enum property, one step per
\* statement executed (retarget_mesh.py 200-216).  `items` is the list of
\* the module; the callback returns that list itself.
ObjectItem(name, number) ==
    [identifier |-> "o_" \o name, name |-> name, icon |-> "OBJECT_DATA", number |-> number]
KeyItem(name, number) ==
    [identifier |-> "s_" \o name, name |-> name, icon |-> "SHAPEKEY_DATA", number |-> number]
NoneItem == [identifier |-> "NONE", name |-> ""]

\* o.type == 'MESH' and o != src_obj and len(o.data.vertices) == len(src_mesh.vertices)
Listed(name, source) ==
    /\ objects[name].type = "MESH"
    /\ name # source
    /\ Len(objects[name].co) = Len(objects[source].co)

execVars == <<objects, context_mode, selected_objects, active_object, op, props, pc,
              strideVars, fitVars, loopVars, result, reports, objects0, run, first_run>>

\* items.clear()
ItemsClear(c) ==
    /\ calls[c].pc = "clear"
    /\ items' = <<>>
    /\ calls' = [calls EXCEPT ![c].pc = "none"]
    /\ UNCHANGED <<execVars, panelVars>>

\* items.append(('NONE', "", "")); if src_obj:
ItemsNone(c) ==
    /\ calls[c].pc = "none"
    /\ items' = Append(items, NoneItem)
    /\ calls' = [calls EXCEPT ![c].pc = IF calls[c].src.isNone THEN "return" ELSE "objects"]
    /\ UNCHANGED <<execVars, panelVars>>

\* for o in context.scene.objects: one iteration
ItemsObject(c) ==
    /\ calls[c].pc = "objects"
    /\ LET scene == SceneObjects(c)
           o == scene[calls[c].k]
       IN  /\ items' = IF Listed(o, calls[c].src.v)
                       THEN Append(items, ObjectItem(o, Len(items)))
                       ELSE items
           /\ calls' = [calls EXCEPT ![c] =
                           IF calls[c].k < Len(scene)
                           THEN Call("objects", calls[c].src, calls[c].k + 1)
                           ELSE Call("keys", calls[c].src, 1)]
    /\ UNCHANGED <<execVars, panelVars>>

\* for sk in src_mesh.shape_keys.key_blocks: one iteration
ItemsKey(c) ==
    /\ calls[c].pc = "keys"
    /\ LET keys == objects[calls[c].src.v].shape_keys
       IN  /\ calls[c].k <= Len(keys)
           /\ items' = Append(items, KeyItem(keys[calls[c].k].name, Len(items)))
           /\ calls' = [calls EXCEPT ![c].k = calls[c].k + 1]
    /\ UNCHANGED <<execVars, panelVars>>

\* return items
ItemsReturn(c) ==
    /\ \/ calls[c].pc = "return"
       \/ /\ calls[c].pc = "keys"
          /\ calls[c].k > Len(objects[calls[c].src.v].shape_keys)
    /\ calls' = [calls EXCEPT ![c].pc = "returned"]
    /\ UNCHANGED <<execVars, panelVars, items>>

\* Two invocations of the callback, for two scenes, their statements
\* interleaved in any order.
InitItems ==
    /\ InitExecute
    /\ op = "retarget_mesh" /\ ~props.only_selection
    /\ run = 1 /\ first_run = None
    /\ settings = [retarget_src |-> None, retarget_dst |-> "NONE"]
    /\ chosen = None /\ panel = None
    /\ items = <<>>
    /\ \E src2 \in {Some("Cloth"), Some("Body"), None} :
          calls = [c \in Calls |-> Call("clear", IF c = 1 THEN Some("Src") ELSE src2, 1)]

NextItems ==
    \E c \in Calls :
        \/ ItemsClear(c)
        \/ ItemsNone(c)
        \/ ItemsObject(c)
        \/ ItemsKey(c)
        \/ ItemsReturn(c)

ItemsSpec == InitItems /\ [][NextItems]_vars

\* ------------------------------------------------------------ the panel
\* context.scene.objects of the panel's scene.
PanelScene == <<"Src", "Dst", "Body", "Cloth", "Hull", "Rig", "Lamp", "NE">>

\* The objects retarget_src can be set to (poll: obj and obj.type == 'MESH'),
\* or None when the field is cleared.
Sources ==
    {None} \cup {Some(PanelScene[i]) : i \in {k \in 1..Len(PanelScene) :
                                                objects[PanelScene[k]].type = "MESH"}}

RECURSIVE AppendObjects(_, _, _)
AppendObjects(acc, source, k) ==
    IF k > Len(PanelScene) THEN acc
    ELSE AppendObjects(IF Listed(PanelScene[k], source)
                       THEN Append(acc, ObjectItem(PanelScene[k], Len(acc))) ELSE acc,
                       source, k + 1)

RECURSIVE AppendKeys(_, _, _)
AppendKeys(acc, keys, k) ==
    IF k > Len(keys) THEN acc
    ELSE AppendKeys(Append(acc, KeyItem(keys[k].name, Len(acc))), keys, k + 1)

\* retarget_dst_items(self, context), run from clear() to return.
retarget_dst_items(source) ==
    IF source.isNone THEN <<NoneItem>>
    ELSE AppendKeys(AppendObjects(<<NoneItem>>, source.v, 1),
                    objects[source.v].shape_keys, 1)

panelFrame == <<objects, context_mode, selected_objects, active_object, op, pc,
                strideVars, fitVars, loopVars, result, reports, objects0, calls,
                run, first_run>>

\* SetSource without the update callback.
SetSource_KeepDestination ==
    /\ \E source \in Sources : settings' = [settings EXCEPT !.retarget_src = source]
    /\ panel' = None
    /\ UNCHANGED <<panelFrame, props, items, chosen>>

\* settings.retarget_src is set; its update callback retarget_src_update
\* resets the destination (retarget_mesh.py 196-198, 221-227).
SetSource ==
    /\ \E source \in Sources :
          settings' = [retarget_src |-> source, retarget_dst |-> "NONE"]
    /\ panel' = None
    /\ UNCHANGED <<panelFrame, props, items, chosen>>

\* settings.retarget_dst is set to one of the entries retarget_dst_items
\* offers for the source that is set (retarget_mesh.py 228-232).
ChooseDestination ==
    /\ items' = retarget_dst_items(settings.retarget_src)
    /\ \E i \in 1..Len(items') :
          /\ settings' = [settings EXCEPT !.retarget_dst = items'[i].identifier]
          /\ chosen' = Some([source |-> settings.retarget_src, item |-> items'[i]])
    /\ panel' = None
    /\ UNCHANGED <<panelFrame, props>>

\* draw_panel: the operator button gets the pair when a source is set and
\* the destination is not 'NONE', and is disabled otherwise
\* (retarget_mesh.py 181-194, retarget_armature.py 213-225).
DrawPanel ==
    /\ panel' = IF ~settings.retarget_src.isNone /\ settings.retarget_dst # "NONE"
                THEN Some([source |-> settings.retarget_src.v,
                           destination |-> settings.retarget_dst])
                ELSE None
    /\ UNCHANGED <<panelFrame, props, items, settings, chosen>>

\* The enabled button is pressed: execute is entered with the properties
\* draw_panel assigned.
Click ==
    /\ ~panel.isNone /\ pc = "execute"
    /\ props' = [props EXCEPT !.source = panel.v.source,
                              !.destination = panel.v.destination]
    /\ UNCHANGED <<panelFrame, items, panelVars>>

\* The operator is called with the source that is set and an identifier
\* picked from the list retarget_dst_items returned for it.
Invoke ==
    /\ pc = "execute"
    /\ ~chosen.isNone /\ ~settings.retarget_src.isNone
    /\ chosen.v.source = settings.retarget_src
    /\ props' = [props EXCEPT !.source = settings.retarget_src.v,
                              !.destination = chosen.v.item.identifier]
    /\ UNCHANGED <<panelFrame, items, panelVars>>

\* The panel of the mesh operator; the armature operator's is the same code.
InitPanel == Init /\ op = "retarget_mesh" /\ ~props.only_selection

NextPanel ==
    \/ SetSource
    \/ ChooseDestination
    \/ DrawPanel
    \/ Click
    \/ Invoke

PanelSpec == InitPanel /\ [][NextPanel]_vars

Next ==
    \/ MeshCheck \/ MeshStride \/ MeshSample \/ MeshSolve \/ MeshIteration \/ MeshFinish
    \/ ArmatureCheck \/ ArmatureStride \/ ArmatureSample \/ ArmatureSolve
    \/ ArmatureEnter \/ ArmatureApply \/ ArmatureFinish
    \/ FixedCheck \/ FixedSample \/ FixedSolve \/ FixedIteration \/ FixedFinish

Spec == Init /\ [][Next]_vars

\* --------------------------------------------------- a repeated execution
\* The operator is executed again on the same inputs: the scene and the
\* context are as they were before the first execution and the operator's
\* properties are the ones the first execution had; everything execute
\* computed the first time is left as it was, the invocation having no
\* state besides its locals.
Rerun ==
    /\ pc = "done" /\ run = 1
    /\ run' = 2
    /\ first_run' = Some([objects |-> objects, context_mode |-> context_mode,
                          result |-> result, reports |-> reports, evals |-> evals,
                          props |-> props, selected_objects |-> selected_objects,
                          active_object |-> active_object])
    /\ objects' = objects0
    /\ context_mode' = IF objects0["Rig"].mode = "EDIT" THEN "EDIT_ARMATURE" ELSE "OBJECT"
    /\ selected_objects' = <<>> /\ active_object' = None
    /\ pc' = "execute" /\ result' = {} /\ reports' = <<>>
    /\ todo' = 1 /\ evals' = <<>> /\ solves' = 0
    /\ UNCHANGED <<op, props, strideVars, rbf_kernel, radius, x_mirror, src_pts, dst_pts,
                   weights, solved, is_editing, objects0, itemVars, panelVars>>

\* The repeated execution is given the inputs of the first: the properties
\* stay as they were, and the step that reads the selection and the active
\* object finds them as they were then.
Replayed ==
    run = 2 =>
        /\ props' = first_run.v.props
        /\ selected_objects' = selected_objects
              \/ selected_objects' = first_run.v.selected_objects
        /\ active_object' = active_object \/ active_object' = first_run.v.active_object

NextRerun ==
    \/ MeshCheck /\ Replayed
    \/ MeshStride /\ Replayed
    \/ MeshSample /\ Replayed
    \/ MeshSolve /\ Replayed
    \/ MeshIteration /\ Replayed
    \/ MeshFinish /\ Replayed
    \/ ArmatureCheck /\ Replayed
    \/ ArmatureStride /\ Replayed
    \/ ArmatureSample /\ Replayed
    \/ ArmatureSolve /\ Replayed
    \/ ArmatureEnter /\ Replayed
    \/ ArmatureApply /\ Replayed
    \/ ArmatureFinish /\ Replayed
    \/ FixedCheck /\ Replayed
    \/ FixedSample /\ Replayed
    \/ FixedSolve /\ Replayed
    \/ FixedIteration /\ Replayed
    \/ FixedFinish /\ Replayed
    \/ Rerun

\* The executions that are repeated: those on the whole source mesh.
InitRerun == Init /\ ~props.only_selection

RerunSpec == InitRerun /\ [][NextRerun]_vars

\* ------------------------------------------------------- the vertex limit
\* The fixed-stride operator on dense meshes, up to its vertex limit check.
\* Vertex counts within Slack of a multiple of the limit.
Slack == 8

LargeCounts ==
    {c * FixedVertexLimit + d : c \in 1..(MaxStride + 1), d \in (0 - Slack)..Slack}

\* Source, destination and one target of n vertices each.
LargeScene(n) ==
    LET co == [i \in 1..n |-> Q(i)]
        none == [i \in 1..n |-> FALSE]
    IN  [name \in Names |->
          IF name \in {"Src", "Dst", "Body"} THEN Mesh(Matrix, co, none, <<>>)
          ELSE IF name = "Rig" THEN Armature("OBJECT", Matrix, <<>>)
          ELSE Object("LIGHT", "OBJECT", Matrix, <<>>, <<>>, <<>>, <<>>)]

InitLimit ==
    /\ op = "retarget_mesh_fixed"
    /\ \E n \in LargeCounts : objects = LargeScene(n)
    /\ context_mode = "OBJECT"
    /\ props = DefaultProps
    /\ InitLocals
    /\ items = <<>>
    /\ calls = [c \in Calls |-> Call("idle", None, 1)]
    /\ settings = [retarget_src |-> None, retarget_dst |-> "NONE"]
    /\ chosen = None /\ panel = None
    /\ run = 1 /\ first_run = None

NextLimit == FixedCheck

LimitSpec == InitLimit /\ [][NextLimit]_vars

\* ------------------------------------------------ successive invocations
\* Largest number of invocations in a row.
MaxInvocations == 3

\* The mesh operator is invoked again on the scene the last invocation
\* left; evals keeps the evaluations of every invocation.
Again ==
    /\ pc = "done" /\ result = {"FINISHED"} /\ run < MaxInvocations
    /\ run' = run + 1
    /\ selected_objects' = <<>> /\ active_object' = None
    /\ pc' = "execute" /\ result' = {} /\ reports' = <<>>
    /\ todo' = 1 /\ solves' = 0
    /\ UNCHANGED <<sceneVars, op, props, strideVars, rbf_kernel, radius, x_mirror, src_pts,
                   dst_pts, weights, solved, is_editing, evals, objects0, itemVars,
                   panelVars, first_run>>

\* Every invocation has as_shape_key set, and the later ones the
\* properties of the first.
Held == IF run = 1 THEN pc' = "loop" => props'.as_shape_key ELSE props' = props

NextSuccessive ==
    \/ MeshCheck /\ Held
    \/ MeshStride /\ Held
    \/ MeshSample /\ Held
    \/ MeshSolve /\ Held
    \/ MeshIteration /\ Held
    \/ MeshFinish /\ Held
    \/ FixedCheck /\ Held
    \/ FixedSample /\ Held
    \/ FixedSolve /\ Held
    \/ FixedIteration /\ Held
    \/ FixedFinish /\ Held
    \/ Again

\* The invocations on the whole source mesh of MaxVerts vertices.
InitSuccessive ==
    /\ Init /\ op # "retarget_armature" /\ ~props.only_selection
    /\ Len(objects[src_obj].co) = MaxVerts

SuccessiveSpec == InitSuccessive /\ [][NextSuccessive]_vars

\* ------------------------------------------------------------------ claims
Elems(seq) == {seq[i] : i \in 1..Len(seq)}

\* dst_to_obj of a target, as the running operator computes it.
DstToObj(name) ==
    IF op = "retarget_armature" /\ ~props.use_object_transform THEN Matrix
    ELSE MatMul(inverted(objects0[name].matrix_world), objects0[dst_obj].matrix_world)

\* The fitted map at one point: sum_k w_k k(|q - c_k|) + b + a q.
Image(q) ==
    LET N == Len(src_pts)
        w == weights.v
        RECURSIVE kernels(_)
        kernels(k) == IF k = 0 THEN QZero
                      ELSE QAdd(kernels(k - 1),
                                QMul(w[k], CallKernel(rbf_kernel, QAbs(QSub(q, src_pts[k])), radius)))
    IN  QAdd(kernels(N), QAdd(w[N + 1], QMul(w[N + 2], q)))

\* The target as it would be had it been the only selected object.
Alone(name) ==
    LET o == objects0[name]
        m == DstToObj(name)
    IN  IF o.type = "MESH"
        THEN WriteMesh(o, ToLocal(m, Retargeted(
                 get_mesh_points(o, None, None, 1, Some(inverted(m)), None).pts)),
                 ShapeKeyName)
        ELSE LET e == [o EXCEPT !.mode = "EDIT"]
             IN  set_armature_points(e, Retargeted(get_armature_points(e, inverted(m))), m,
                                     o.mode = "EDIT", props.lock_length, props.lock_direction)

\* C1: when the weight solve fails, execute returns CANCELLED, no target has
\* been evaluated and every object is as it was when execute began.
C1_SolveFailureCancels ==
    (solves > 0 /\ weights.isNone) =>
        /\ pc = "done" /\ result = {"CANCELLED"}
        /\ evals = <<>>
        /\ objects = objects0

C1_Witness ==
    /\ solves > 0 /\ weights.isNone /\ result = {"CANCELLED"}
    /\ op = "retarget_armature" /\ context_mode = "EDIT_ARMATURE"
    /\ Len(src_pts) >= 2

\* C2: the stride is the least s with s * C >= M, and the masked points
\* taken every stride-th are at most C.
C2_StrideBoundsSample ==
    (pc \notin {"execute", "stride"} /\ num_masked >= 1 /\ op # "retarget_mesh_fixed") =>
        /\ stride >= 1
        /\ stride * vertex_cap >= num_masked
        /\ (stride - 1) * vertex_cap < num_masked
        /\ Len(SampledIndices(num_vertices, mask, stride)) <= vertex_cap
        /\ pc # "sample" =>
              Len(src_pts) <= (IF x_mirror.isNone THEN 1 ELSE 2) * vertex_cap

C2_Witness ==
    /\ pc = "solve" /\ stride = 2 /\ Len(src_pts) = vertex_cap
    /\ num_masked = vertex_cap + 1

\* C3: with only_selection set and no source vertex selected, execute
\* reports an error and returns CANCELLED; nothing is sampled, solved or
\* modified.
C3_EmptySelectionCancels ==
    (props.only_selection /\ CountTrue(objects0[src_obj].select) = 0) =>
        /\ pc \in {"execute", "stride", "done"}
        /\ src_pts = <<>> /\ dst_pts = <<>> /\ solves = 0 /\ evals = <<>>
        /\ objects = objects0
        /\ pc = "done" => result = {"CANCELLED"} /\ Len(reports) = 1

C3_Witness ==
    /\ props.only_selection /\ CountTrue(objects0[src_obj].select) = 0
    /\ Len(objects0[src_obj].co) >= 2
    /\ pc = "done"
    /\ reports = <<"Source mesh has no vertices selected.">>

\* C4: a source mesh without vertices, or source and destination meshes of
\* different vertex counts, end execute with an error report and CANCELLED
\* before any sampling or solving, with no object modified.
C4_MismatchCancelsEarly ==
    (\/ Len(objects0[src_obj].co) = 0
     \/ Len(objects0[src_obj].co) # Len(objects0[dst_obj].co)) =>
        /\ pc \in {"execute", "done"}
        /\ src_pts = <<>> /\ dst_pts = <<>> /\ solves = 0 /\ evals = <<>>
        /\ objects = objects0
        /\ pc = "done" => result = {"CANCELLED"} /\ Len(reports) = 1

\* C5: the weights are solved once, before any target is evaluated, and
\* when execute ends every target of the invocation has been evaluated
\* with the weights and the sampled source points it ends with.
C5_SolvedOnceSharedWeights ==
    /\ solves <= 1
    /\ evals # <<>> => solves = 1 /\ ~weights.isNone
    /\ pc = "done" =>
          \A i \in 1..Len(evals) :
              evals[i].new_pts =
                  Evaluate(evals[i].pts, src_pts, rbf_kernel, radius, weights.v)

C5_Witness ==
    /\ result = {"FINISHED"} /\ Len(evals) = 2 /\ solves = 1
    /\ src_pts # dst_pts

\* C6: what is written to a target depends on the target and the shared
\* weights alone: it is what would be written were it the only selected
\* object.
C6_IndependentOfSelection ==
    result = {"FINISHED"} =>
        \A i \in 1..Len(evals) :
            LET name == evals[i].obj
            IN  /\ objects[name].co = Alone(name).co
                /\ objects[name].shape_keys = Alone(name).shape_keys
                /\ objects[name].bones = Alone(name).bones

\* C7: on success every processed target received as many points as it
\* supplied, point i being the image of its query point i.
C7_PointwiseImage ==
    result = {"FINISHED"} =>
        \A e \in Elems(evals) :
            /\ Len(e.new_pts) = Len(e.pts)
            /\ \A i \in 1..Len(e.pts) : e.new_pts[i] = Image(e.pts[i])
            /\ objects0[e.obj].type = "MESH" =>
                  LET o == objects[e.obj]
                      co0 == objects0[e.obj].co
                      m == DstToObj(e.obj)
                      co == IF props.as_shape_key THEN o.shape_keys[Len(o.shape_keys)].co
                            ELSE o.co
                  IN  /\ Len(co) = Len(co0)
                      /\ \A i \in 1..Len(co0) :
                            co[i] = Transform(m, Image(Transform(inverted(m), co0[i])))
            /\ objects0[e.obj].type = "ARMATURE" =>
                  LET o == objects[e.obj]
                      m == DstToObj(e.obj)
                  IN  /\ Len(e.pts) = 2 * Len(o.bones)
                      /\ \A i \in 1..Len(o.bones) :
                            \/ o.bones[i] = objects0[e.obj].bones[i]
                            \/ o.bones[i].head =
                                  Transform(m, Image(Transform(inverted(m),
                                                               objects0[e.obj].bones[i].head)))

C7_Witness ==
    /\ result = {"FINISHED"} /\ props.as_shape_key
    /\ \E e \in Elems(evals) : e.obj = "Body" /\ e.new_pts[2] # e.pts[2]

\* C8: the sampled source and target arrays handed to the solver have the
\* same length and pair i comes from one vertex index of both meshes,
\* whatever the mask, stride, mirroring and invert.
C8_SamplesAligned ==
    pc \in {"solve", "loop", "bones"} =>
        LET idx == SampledIndices(num_vertices, mask, stride)
            k == Len(idx)
            S == objects0[src_obj].co
            D == IF dst_is_shape_key
                 THEN objects0[src_obj].shape_keys[2].co
                 ELSE objects0[dst_obj].co
            A == IF props.invert THEN D ELSE S
            B == IF props.invert THEN S ELSE D
        IN  /\ Len(src_pts) = Len(dst_pts)
            /\ Len(src_pts) = IF props.use_mirror_x THEN 2 * k ELSE k
            /\ \A i \in 1..Len(src_pts) :
                  LET j == idx[((i - 1) % k) + 1]
                  IN  IF i <= k
                      THEN src_pts[i] = A[j] /\ dst_pts[i] = B[j]
                      ELSE src_pts[i] = QNeg(A[j]) /\ dst_pts[i] = QNeg(B[j])

C8_Witness ==
    /\ pc = "solve" /\ props.use_mirror_x /\ props.invert /\ stride = 2
    /\ ~mask.isNone /\ ~mask.v[1] /\ num_masked < num_vertices
    /\ Len(src_pts) = 2 /\ src_pts # dst_pts

\* C9: in an armature that is in edit mode when execute begins, the head
\* and tail of every unselected bone stay as they were.
C9_UnselectedBonesUntouched ==
    \A name \in Names :
        (objects0[name].type = "ARMATURE" /\ objects0[name].mode = "EDIT") =>
            \A i \in 1..Len(objects0[name].bones) :
                ~objects0[name].bones[i].select =>
                    objects[name].bones[i] = objects0[name].bones[i]

C9_Witness ==
    /\ result = {"FINISHED"} /\ objects0["Rig"].mode = "EDIT"
    /\ \E e \in Elems(evals) : e.obj = "Rig"
    /\ objects["Rig"].bones[1] # objects0["Rig"].bones[1]
    /\ objects["Rig"].bones[2] = objects0["Rig"].bones[2]
    /\ Image(objects0["Rig"].bones[2].head) # objects0["Rig"].bones[2].head

\* C10: with lock_direction set every bone keeps its original direction and
\* length: its tail is its head plus the original unit direction times the
\* original length, whatever lock_length is.
C10_LockDirection ==
    (op = "retarget_armature" /\ props.lock_direction) =>
        \A e \in Elems(evals) : \A i \in 1..Len(objects[e.obj].bones) :
            LET b == objects[e.obj].bones[i]
                b0 == objects0[e.obj].bones[i]
                direction == QSign(QSub(b0.tail, b0.head))
                length == QAbs(QSub(b0.tail, b0.head))
            IN  b.tail = QAdd(b.head, QMul(direction, length))

C10_Witness ==
    /\ op = "retarget_armature" /\ props.lock_direction /\ result = {"FINISHED"}
    /\ \E e \in Elems(evals) :
          LET b == objects[e.obj].bones[1]
              b0 == objects0[e.obj].bones[1]
          IN  /\ b.head # b0.head
              /\ b.head = Transform(DstToObj(e.obj), e.new_pts[1])
              /\ b.tail # Transform(DstToObj(e.obj), e.new_pts[2])
              /\ QSign(QSub(e.new_pts[2], e.new_pts[1])) # QSign(QSub(b0.tail, b0.head))

\* C11: with lock_length set and lock_direction not, every written bone has
\* its mapped head, its original length, and its tail on the ray from the
\* mapped head through the mapped tail.
C11_LockLength ==
    (op = "retarget_armature" /\ props.lock_length /\ ~props.lock_direction) =>
        \A e \in Elems(evals) : \A i \in 1..Len(objects[e.obj].bones) :
            LET b == objects[e.obj].bones[i]
                b0 == objects0[e.obj].bones[i]
                head == Transform(DstToObj(e.obj), e.new_pts[2 * i - 1])
                tail == Transform(DstToObj(e.obj), e.new_pts[2 * i])
            IN  \/ b = b0
                \/ /\ b.head = head
                   /\ QAbs(QSub(b.tail, b.head)) = QAbs(QSub(b0.tail, b0.head))
                   /\ QSign(QSub(b.tail, b.head)) = QSign(QSub(tail, head))

C11_Witness ==
    /\ op = "retarget_armature" /\ props.lock_length /\ ~props.lock_direction
    /\ result = {"FINISHED"}
    /\ \E e \in Elems(evals) :
          LET b == objects[e.obj].bones[1]
              b0 == objects0[e.obj].bones[1]
              head == Transform(DstToObj(e.obj), e.new_pts[1])
              tail == Transform(DstToObj(e.obj), e.new_pts[2])
          IN  /\ b.head # b0.head /\ b.tail # tail
              /\ QAbs(QSub(tail, head)) # QAbs(QSub(b0.tail, b0.head))
              /\ QSign(QSub(b.tail, b.head)) # QSign(QSub(b0.tail, b0.head))

SampledSource ==
    get_mesh_points(objects0[src_obj], None, mask, stride, None,
                    IF props.use_mirror_x THEN Some(<<>>) ELSE None).pts

SampledDestination ==
    get_mesh_points(objects0[dst_obj], dst_shape_key_name, mask, stride, None,
                    IF props.use_mirror_x THEN Some(<<>>) ELSE None).pts

\* C13: with invert the two sampled clouds change places once: the fit maps
\* the destination's points onto the source's, the evaluation is centred on
\* the destination's points, and both clouds are the ones sampled without
\* invert under the same mask, stride and mirroring.
C13_InvertSwapsOnce ==
    (op = "retarget_armature" /\ pc \in {"solve", "loop", "bones", "done"}
        /\ src_pts # <<>> /\ props.invert) =>
        /\ src_pts = SampledDestination
        /\ dst_pts = SampledSource
        /\ (solves = 1 /\ evals = <<>>) =>
              weights = get_weight_matrix(SampledDestination, SampledSource,
                                          rbf_kernel, radius)
        /\ pc = "done" =>
              \A e \in Elems(evals) :
                  e.new_pts = Evaluate(e.pts, SampledDestination, rbf_kernel, radius,
                                       weights.v)

C13_Witness ==
    /\ op = "retarget_armature" /\ props.invert /\ result = {"FINISHED"}
    /\ evals # <<>> /\ props.use_mirror_x
    /\ src_pts # dst_pts
    /\ src_pts[2] = objects0[dst_obj].co[3]
    /\ \E e \in Elems(evals) : e.new_pts # e.pts

\* The list one invocation of retarget_dst_items builds when it runs alone.
RECURSIVE ObjectItems(_, _, _, _)
ObjectItems(scene, source, k, acc) ==
    IF k > Len(scene) THEN acc
    ELSE ObjectItems(scene, source, k + 1,
                     IF Listed(scene[k], source)
                     THEN Append(acc, ObjectItem(scene[k], Len(acc))) ELSE acc)

RECURSIVE KeyItems(_, _, _)
KeyItems(keys, k, acc) ==
    IF k > Len(keys) THEN acc
    ELSE KeyItems(keys, k + 1, Append(acc, KeyItem(keys[k].name, Len(acc))))

ItemsAlone(c) ==
    IF calls[c].src.isNone THEN <<NoneItem>>
    ELSE KeyItems(objects[calls[c].src.v].shape_keys, 1,
                  ObjectItems(SceneObjects(c), calls[c].src.v, 1, <<NoneItem>>))

\* C14: of two invocations on different scenes and sources, interleaved in
\* any order, each has returned what it returns when it runs alone.
C14_InvocationsIndependent ==
    \A c \in Calls : calls[c].pc = "returned" => items = ItemsAlone(c)

\* C15: the fitted map, evaluated as the operators evaluate it, takes every
\* sampled source point to its destination point, when the weights are
\* solved and when execute ends.
C15_ExactInterpolation ==
    (solves > 0 /\ ~weights.isNone /\ (evals = <<>> \/ pc = "done")) =>
        Evaluate(src_pts, src_pts, rbf_kernel, radius, weights.v) = dst_pts

C15_Witness ==
    /\ pc = "loop" /\ solves = 1 /\ ~weights.isNone
    /\ Len(src_pts) = 3 /\ rbf_kernel = "beckert_wendland_c2_basis"
    /\ weights.v[1] # QZero /\ weights.v[4] # QZero /\ weights.v[5] # QZero

\* The slope and offset of the affine map through the first two distinct
\* sampled pairs.
AffineSlope ==
    LET j == CHOOSE j \in 2..Len(src_pts) :
                 /\ src_pts[j] # src_pts[1]
                 /\ \A i \in 2..(j - 1) : src_pts[i] = src_pts[1]
    IN  QDiv(QSub(dst_pts[j], dst_pts[1]), QSub(src_pts[j], src_pts[1]))
AffineOffset == QSub(dst_pts[1], QMul(AffineSlope, src_pts[1]))

\* Every sampled destination point is the same affine image of its source.
IsAffine ==
    /\ \E j \in 2..Len(src_pts) : src_pts[j] # src_pts[1]
    /\ \A i \in 1..Len(src_pts) :
          dst_pts[i] = QAdd(QMul(AffineSlope, src_pts[i]), AffineOffset)

\* C16: when the destination points are one affine image M x + t of the
\* source points, with either kernel the kernel weights are zero, the
\* affine block is (t, M) and every query point q is taken to M q + t.
C16_AffineExactness ==
    (solves > 0 /\ ~weights.isNone /\ IsAffine) =>
        LET N == Len(src_pts)
        IN  /\ \A i \in 1..N : weights.v[i] = QZero
            /\ weights.v[N + 1] = AffineOffset
            /\ weights.v[N + 2] = AffineSlope
            /\ \A e \in Elems(evals) : \A i \in 1..Len(e.pts) :
                  e.new_pts[i] = QAdd(QMul(AffineSlope, e.pts[i]), AffineOffset)

C16_Witness ==
    /\ result = {"FINISHED"} /\ IsAffine /\ Len(src_pts) = 3
    /\ rbf_kernel = "beckert_wendland_c2_basis"
    /\ AffineSlope = Q(-2) /\ AffineOffset = QOne
    /\ \E e \in Elems(evals) : e.pts[2] # QZero /\ e.new_pts[2] # e.pts[2]

\* Two sampled source points coincide.
Coincident == \E i, j \in 1..Len(src_pts) : i < j /\ src_pts[i] = src_pts[j]

\* C17: with two coincident sampled source points the solve fails: the
\* failure is reported, execute returns CANCELLED, and no weights exist to
\* be applied to a target.
C17_CoincidentPointsRejected ==
    (solves > 0 /\ Coincident) =>
        /\ weights.isNone
        /\ pc = "done" /\ result = {"CANCELLED"} /\ Len(reports) = 1
        /\ evals = <<>> /\ objects = objects0

C17_Witness ==
    /\ solves = 1 /\ Len(src_pts) = 3 /\ src_pts[1] = src_pts[2] /\ src_pts[2] # src_pts[3]
    /\ result = {"CANCELLED"}
    /\ rbf_kernel = "beckert_wendland_c2_basis"

Symmetric ==
    \A i \in 1..Len(src_pts) : \E j \in 1..Len(src_pts) :
        src_pts[j] = QNeg(src_pts[i]) /\ dst_pts[j] = QNeg(dst_pts[i])

\* C19: fitted with use_mirror_x on symmetric pairs, the map takes the
\* reflection of every evaluated point to the reflection of its image.
C19_MirrorSymmetry ==
    (op = "retarget_armature" /\ props.use_mirror_x /\ pc = "done" /\ Symmetric
        /\ solves > 0 /\ ~weights.isNone) =>
        \A e \in Elems(evals) : \A i \in 1..Len(e.pts) :
            Evaluate(<<QNeg(e.pts[i])>>, src_pts, rbf_kernel, radius, weights.v)
                = <<QNeg(e.new_pts[i])>>

C19_Witness ==
    /\ op = "retarget_armature" /\ props.use_mirror_x /\ Symmetric
    /\ result = {"FINISHED"} /\ Len(src_pts) = 4
    /\ \E i \in 1..4 : weights.v[i] # QZero
    /\ \E e \in Elems(evals) : e.pts[2] # QZero /\ e.new_pts[2] # e.pts[2]
                                /\ e.new_pts[2] # QNeg(e.pts[2])

\* C20: the source and the destination object stay as they were, selected
\* or not; the mesh operators leave objects that are not meshes and meshes
\* without vertices as they were, the armature operator every object that
\* is not an armature; the other selected objects are still processed.
C20_OnlyTargetsModified ==
    /\ objects[src_obj] = objects0[src_obj]
    /\ objects[dst_obj] = objects0[dst_obj]
    /\ \A name \in Names :
          LET o == objects0[name]
          IN  (IF op = "retarget_armature" THEN o.type # "ARMATURE"
               ELSE o.type # "MESH" \/ Len(o.co) = 0) =>
                  objects[name] = o
    /\ (result = {"FINISHED"} /\ op # "retarget_armature") =>
          \A name \in Elems(selected_objects) :
              (objects0[name].type = "MESH" /\ Len(objects0[name].co) > 0
                  /\ name \notin {src_obj, dst_obj}) =>
                  \E e \in Elems(evals) : e.obj = name

\* The kernel function and the effective radius of the invocation: the
\* function property's kernel, and the radius property times that kernel's
\* scale where the operator has one.
InvocationKernel ==
    IF op = "retarget_mesh_fixed"
    THEN KernelArgs(rbf_kernels_fixed(props.function), props.radius)
    ELSE KernelArgs(rbf_kernels(props.function).kernel,
                    QMul(props.radius, rbf_kernels(props.function).scale))

\* C21: every evaluation of query points uses the kernel function and the
\* effective radius the weight matrix of the invocation was built with.
C21_SameKernelAndRadius ==
    /\ solves > 0 => ~solved.isNone /\ solved.v = InvocationKernel
    /\ \A e \in Elems(evals) : ~solved.isNone /\ e.kernel = solved.v

C21_Witness ==
    /\ result = {"FINISHED"} /\ Len(evals) = 2 /\ props.function = "C2"
    /\ op = "retarget_mesh" /\ solved.v.radius # props.radius
    /\ \A e \in Elems(evals) : e.kernel.rbf = "beckert_wendland_c2_basis"

\* The head and tail of every bone, in bone order.
BonePoints(bones) ==
    Tuple([i \in 1..(2 * Len(bones)) |->
              IF i % 2 = 1 THEN bones[(i + 1) \div 2].head ELSE bones[(i + 1) \div 2].tail],
          2 * Len(bones))

\* The points of a sequence under a transform.
Moved(m, pts) == Tuple([i \in 1..Len(pts) |-> Transform(m, pts[i])], Len(pts))

\* C22: the query points of a target are its local points under obj_to_dst,
\* what is written are the results under dst_to_obj, the two transforms are
\* inverses of each other, and a target whose query points the fitted map
\* leaves in place is written with its original local points; the armature
\* operator without use_object_transform evaluates the bone points as they
\* are.
C22_FramesRoundTrip ==
    result = {"FINISHED"} =>
        \A e \in Elems(evals) :
            LET o == objects[e.obj]
                o0 == objects0[e.obj]
                world == MatMul(inverted(o0.matrix_world), objects0[dst_obj].matrix_world)
                plain == op = "retarget_armature" /\ ~props.use_object_transform
                dst_to_obj == IF plain THEN Matrix ELSE world
                obj_to_dst == inverted(dst_to_obj)
                local == IF o0.type = "MESH" THEN o0.co ELSE BonePoints(o0.bones)
                co == IF props.as_shape_key THEN o.shape_keys[Len(o.shape_keys)].co
                      ELSE o.co
            IN  /\ MatMul(dst_to_obj, obj_to_dst) = Matrix
                /\ MatMul(obj_to_dst, dst_to_obj) = Matrix
                /\ e.pts = Moved(obj_to_dst, local)
                /\ plain => e.pts = local
                /\ o0.type = "MESH" => co = Moved(dst_to_obj, e.new_pts)
                /\ o0.type = "ARMATURE" =>
                      \A i \in 1..Len(o0.bones) :
                          \/ o.bones[i] = o0.bones[i]
                          \/ o.bones[i].head = Transform(dst_to_obj, e.new_pts[2 * i - 1])
                /\ e.new_pts = e.pts =>
                      IF o0.type = "MESH" THEN co = o0.co ELSE o.bones = o0.bones

\* The undeformed destination: the map is the identity, and a target whose
\* frame differs from the destination's is written with its own points.
C22_Witness ==
    /\ result = {"FINISHED"} /\ Len(evals) = 2
    /\ \A e \in Elems(evals) : e.new_pts = e.pts /\ e.pts # objects0[e.obj].co
    /\ \E e \in Elems(evals) :
          /\ e.obj = "Body" /\ props.as_shape_key
          /\ objects["Body"].shape_keys[2].co = objects0["Body"].co
    /\ src_pts = dst_pts

\* C23: a processed mesh is written on exactly one path.  With as_shape_key
\* it gains one shape key holding the result, after a Basis key holding its
\* coordinates when it had no shape keys, and its coordinates and its other
\* keys stay; without, a mesh with shape keys has its basis replaced and a
\* mesh without has its vertex coordinates set, and no key is added.
C23_OneWriteBackPath ==
    (result = {"FINISHED"} /\ op # "retarget_armature") =>
        \A e \in Elems(evals) :
            LET o == objects[e.obj]
                o0 == objects0[e.obj]
                keys == o.shape_keys
                keys0 == o0.shape_keys
                written == Moved(DstToObj(e.obj), e.new_pts)
            IN  IF props.as_shape_key
                THEN /\ o.co = o0.co
                     /\ IF keys0 = <<>>
                        THEN Len(keys) = 2 /\ keys[1] = Key("Basis", o0.co)
                        ELSE Len(keys) = Len(keys0) + 1
                             /\ \A k \in 1..Len(keys0) : keys[k] = keys0[k]
                     /\ keys[Len(keys)] =
                           [name |-> ShapeKeyName, co |-> written, value |-> QOne]
                ELSE IF keys0 # <<>>
                THEN /\ Len(keys) = Len(keys0)
                     /\ keys[1] = [keys0[1] EXCEPT !.co = written]
                     /\ \A k \in 2..Len(keys0) : keys[k] = keys0[k]
                     /\ o.co = written
                ELSE /\ keys = <<>>
                     /\ o.co = written

\* Both paths without as_shape_key in one run: Cloth's basis is replaced,
\* Body's coordinates are set.
C23_Witness ==
    /\ result = {"FINISHED"} /\ ~props.as_shape_key /\ op = "retarget_mesh"
    /\ \E e \in Elems(evals) : e.obj = "Cloth"
    /\ \E e \in Elems(evals) : e.obj = "Body"
    /\ objects["Cloth"].shape_keys[1].co # objects0["Cloth"].shape_keys[1].co
    /\ objects["Cloth"].shape_keys[2] = objects0["Cloth"].shape_keys[2]
    /\ objects["Body"].co # objects0["Body"].co
    /\ objects["Body"].shape_keys = <<>>

\* C24: the destination setting is other than 'NONE' only when it was
\* picked while the source that is set now was set, a change of the source
\* having reset it; so the pair draw_panel gives the operator is the source
\* that is set and a destination picked under it.
C24_SourceChangeResetsDestination ==
    /\ settings.retarget_dst # "NONE" =>
          /\ ~chosen.isNone
          /\ chosen.v.source = settings.retarget_src
          /\ chosen.v.item.identifier = settings.retarget_dst
    /\ ~panel.isNone =>
          /\ ~chosen.isNone /\ ~settings.retarget_src.isNone
          /\ chosen.v.source = settings.retarget_src
          /\ panel.v.source = settings.retarget_src.v
          /\ panel.v.destination = chosen.v.item.identifier
          /\ panel.v.destination # "NONE"

\* The button was pressed for Body, then the source was changed to Cloth,
\* a shape key of Cloth picked and the panel drawn again.
C24_Witness ==
    /\ props.source = "Body"
    /\ ~panel.isNone /\ panel.v.source = "Cloth" /\ panel.v.destination = "s_Smile"
    /\ chosen.v.source = Some("Cloth")

\* The number of evaluations of an object so far, over all invocations.
Processed(name) == Cardinality({i \in 1..Len(evals) : evals[i].obj = name})

\* C25: with as_shape_key set in every invocation, an object processed k
\* times has the vertex coordinates it had before the first invocation, its
\* original shape keys, a Basis key if it had none, and k keys more.
C25_ShapeKeysAccumulate ==
    \A name \in Names :
        LET o == objects[name]
            o0 == objects0[name]
            base == IF o0.shape_keys = <<>> THEN <<Key("Basis", o0.co)>> ELSE o0.shape_keys
        IN  IF Processed(name) = 0 THEN o = o0
            ELSE /\ o.co = o0.co
                 /\ Len(o.shape_keys) = Len(base) + Processed(name)
                 /\ SubSeq(o.shape_keys, 1, Len(base)) = base
                 /\ \A k \in (Len(base) + 1)..Len(o.shape_keys) :
                       /\ o.shape_keys[k].value = QOne
                       /\ \A j \in 1..(k - 1) : o.shape_keys[j].name # o.shape_keys[k].name

\* Body and Cloth after three invocations.
C25_Witness ==
    /\ run = 3 /\ pc = "done" /\ result = {"FINISHED"}
    /\ Processed("Body") = 3 /\ Processed("Cloth") = 3
    /\ Len(objects["Body"].shape_keys) = 4 /\ Len(objects["Cloth"].shape_keys) = 5
    /\ objects["Body"].shape_keys[4].co # objects0["Body"].co
    /\ objects["Body"].co = objects0["Body"].co

\* C26: an identifier retarget_dst_items offered for the source, given to
\* execute as the destination, resolves to what it was built from: 'o_' and
\* a name to the object of that name, 's_' and a name to the shape key of
\* that name on the source with the source as destination object, and
\* 'NONE' to no object.
C26_IdentifiersResolve ==
    (/\ ~chosen.isNone /\ ~chosen.v.source.isNone
     /\ props.source = chosen.v.source.v
     /\ props.destination = chosen.v.item.identifier) =>
        LET item == chosen.v.item
        IN  IF item.identifier = "NONE"
            THEN ~dst_is_shape_key /\ ObjectsGet(dst_obj).isNone
            ELSE IF item.icon = "OBJECT_DATA"
            THEN /\ ~dst_is_shape_key /\ dst_shape_key_name.isNone
                 /\ ObjectsGet(dst_obj) = Some(item.name)
                 /\ Listed(item.name, props.source)
            ELSE /\ dst_is_shape_key /\ dst_obj = src_obj
                 /\ dst_shape_key_name = Some(item.name)
                 /\ \E k \in 1..Len(objects[src_obj].shape_keys) :
                       objects[src_obj].shape_keys[k].name = item.name

\* C27: when the armature operator returns, every selected armature is in
\* the mode it was in when execute began, whatever path each iteration of
\* the loop took.
C27_EditModeRestored ==
    (op = "retarget_armature" /\ pc = "done" /\ result = {"FINISHED"}) =>
        \A name \in Elems(selected_objects) :
            objects0[name].type = "ARMATURE" =>
                objects[name].mode = objects0[name].mode

\* C28: invoked in object mode, the armature operator retargets every bone
\* of every selected armature that has bones: each is evaluated, and written
\* as set_armature_points writes it with only_selected false.
C28_ObjectModeRetargetsAllBones ==
    (op = "retarget_armature" /\ pc = "done" /\ result = {"FINISHED"}
        /\ objects0["Rig"].mode = "OBJECT") =>
        \A name \in Elems(selected_objects) :
            (objects0[name].type = "ARMATURE" /\ objects0[name].bones # <<>>) =>
                \E e \in Elems(evals) :
                    /\ e.obj = name
                    /\ objects[name].bones =
                          set_armature_points([objects0[name] EXCEPT !.mode = "EDIT"],
                                              e.new_pts, DstToObj(name), FALSE,
                                              props.lock_length, props.lock_direction).bones

\* C29: the armature operator hands the weight solver as many source as
\* destination points, at most the vertex cap of them, and at most twice
\* the cap when the mirrored points are added.
C29_ControlPairsCapped ==
    (op = "retarget_armature" /\ solves > 0) =>
        /\ vertex_cap = IF props.high_quality THEN mesh__retarget_num_vertices_high
                        ELSE mesh__retarget_num_vertices_low
        /\ Len(src_pts) = Len(dst_pts)
        /\ IF props.use_mirror_x
           THEN Len(src_pts) <= 2 * vertex_cap
           ELSE Len(src_pts) <= vertex_cap

\* More vertices than the cap, mirrored: twice the cap is reached.
C29_Witness ==
    /\ op = "retarget_armature" /\ solves = 1 /\ props.use_mirror_x
    /\ num_masked > vertex_cap /\ vertex_cap > 1
    /\ Len(src_pts) = 2 * vertex_cap

\* C30: the fixed-stride operator goes on to the weight solve only when
\* the vertices it samples, every stride-th from the first, are at most
\* 5000; with more it reports an error and returns CANCELLED, every object
\* as it was.
C30_FixedSampleLimit ==
    (op = "retarget_mesh_fixed" /\ pc # "execute") =>
        \/ SampledCount(Len(objects0[src_obj].co), stride) <= FixedVertexLimit
        \/ /\ pc = "done" /\ result = {"CANCELLED"} /\ Len(reports) = 1
           /\ objects = objects0
====
